---------------------------- MODULE Spec2Model ----------------------------
(***************************************************************************)
(* Work schedule maker (project.py): the constrained assigner              *)
(* assign_schedule, the preference-free assigner                           *)
(* assign_schedule_without_preferences, their caller complete_assignement  *)
(* and minimum_workers_check, as one state machine.                        *)
(*                                                                         *)
(* A weekday is its number 1..7 (the keys "1".."7" of all_days); a shift   *)
(* is [shift |-> identifier, days |-> the characters of its "days" string  *)
(* in listed order]; an employee is [name, unavailable_days].  The data   *)
(* model takes identifiers and names for unique and weekdays for listed   *)
(* once; the code does not enforce it, and a few inputs below break it.   *)
(***************************************************************************)
EXTENDS Integers, Sequences, FiniteSets, TLC

\* ---------------------------------------------------------------- bounds
MaxShifts == 2
MaxWorkers == 2
MaxDay == 1
MaxInt == 3

\* ------------------------------------------------------ program constants
None == "None"

all_days ==
  [d \in 1..7 |->
     CASE d = 1 -> "Monday" [] d = 2 -> "Tuesday" [] d = 3 -> "Wednesday"
       [] d = 4 -> "Thursday" [] d = 5 -> "Friday" [] d = 6 -> "Saturday"
       [] d = 7 -> "Sunday"]

DayNames == {all_days[d] : d \in DOMAIN all_days}

\* len(all_days)
NumAllDays == Cardinality(DOMAIN all_days)

\* ------------------------------------------------------------------ inputs
ShiftIds == <<"Open", "Close", "Night", "Swing">>
WorkerNames == <<"Alice", "Bob", "Carol", "Dave">>

Range(s) == {s[i] : i \in DOMAIN s}

Injective(s) == \A i, j \in DOMAIN s : s[i] = s[j] => i = j

\* the "days" strings the enumerated shifts carry: the weekdays of every
\* subset of the first MaxDay, listed in ascending order as in a shifts file
\* ("135"); the empty string included
RECURSIVE Ascending(_)
Ascending(S) ==
  IF S = {} THEN <<>>
  ELSE LET d == CHOOSE x \in S : \A y \in S : x >= y
       IN Append(Ascending(S \ {d}), d)

DayLists == {Ascending(S) : S \in SUBSET (1..MaxDay)}

ShiftLists ==
  UNION {{[i \in 1..n |-> [shift |-> ShiftIds[i], days |-> dl[i]]] :
            dl \in [1..n -> DayLists]} : n \in 0..MaxShifts}

\* the employees, each with any set of unavailable weekdays.  Both assigners
\* shuffle the list before any use of it (lines 352, 404), so its listed
\* order has no effect and one order per multiset of workers is enumerated.
RECURSIVE SetCode(_)
SetCode(S) ==
  IF S = {} THEN 0
  ELSE LET d == CHOOSE x \in S : \A y \in S : x >= y
       IN 2 ^ (d - 1) + SetCode(S \ {d})

EmployeeLists ==
  UNION {{[i \in 1..n |-> [name |-> WorkerNames[i], unavailable_days |-> un[i]]] :
            un \in {u \in [1..n -> SUBSET (1..MaxDay)] :
                      \A i \in 1..(n - 1) : SetCode(u[i]) <= SetCode(u[i + 1])}} :
         n \in 0..MaxWorkers}

Shift(id, days) == [shift |-> id, days |-> days]
Worker(name, un) == [name |-> name, unavailable_days |-> un]

Week == <<1, 2, 3, 4, 5, 6, 7>>

\* inputs over several weekdays, beside the enumerated ones: the scenarios
\* of the specification (the first three), inputs that use the pool up, and
\* inputs outside the data model (a weekday listed twice, two shifts with
\* one identifier, two employees with one name), which the code accepts
Scenarios ==
  { [shifts |-> <<Shift("Open", <<1, 2>>), Shift("Close", <<1, 2>>)>>,
     employees |-> <<Worker("Alice", {1}), Worker("Bob", {}), Worker("Carol", {})>>],
    [shifts |-> <<Shift("Open", Week)>>,
     employees |-> <<Worker("Alice", {})>>],
    [shifts |-> <<Shift("Open", <<1, 2>>)>>,
     employees |-> <<Worker("Alice", {1})>>],
    [shifts |-> <<Shift("Open", Week)>>,
     employees |-> <<Worker("Alice", {1, 3, 5, 7}), Worker("Bob", {2, 4, 6})>>],
    [shifts |-> <<Shift("Open", Week), Shift("Close", Week)>>,
     employees |-> <<Worker("Alice", {}), Worker("Bob", {})>>],
    [shifts |-> <<Shift("Open", <<2, 1>>), Shift("Close", <<1, 2>>)>>,
     employees |-> <<Worker("Alice", {}), Worker("Bob", {3})>>],
    [shifts |-> <<Shift("Open", <<1, 2>>), Shift("Close", <<2, 1>>)>>,
     employees |-> <<Worker("Alice", {2}), Worker("Bob", {1})>>],
    [shifts |-> <<Shift("Open", <<1, 2, 3>>), Shift("Close", <<>>), Shift("Night", <<3, 1>>)>>,
     employees |-> <<Worker("Alice", {}), Worker("Bob", {2}), Worker("Carol", {1, 3})>>],
    [shifts |-> <<Shift("Open", <<2, 3, 2, 4, 5, 6, 7, 1>>)>>,
     employees |-> <<Worker("Alice", {1}), Worker("Bob", {1, 3, 4, 5, 6, 7})>>],
    [shifts |-> <<Shift("Open", <<1, 1>>)>>,
     employees |-> <<Worker("Alice", {}), Worker("Bob", {})>>],
    [shifts |-> <<Shift("Open", <<1>>), Shift("Open", <<1>>)>>,
     employees |-> <<Worker("Alice", {}), Worker("Bob", {})>>],
    [shifts |-> <<Shift("Open", <<1>>), Shift("Close", <<1>>)>>,
     employees |-> <<Worker("Alice", {1}), Worker("Alice", {})>>] }

Inputs ==
  {[shifts |-> ss, employees |-> es] : ss \in ShiftLists, es \in EmployeeLists}
    \cup Scenarios

\* what the operator may type at the prompt of complete_assignement, as
\* sequences of characters
Answers ==
  { <<"y", "e", "s">>, <<" ", "Y", "e", "s", " ">>, <<"n", "o">>, <<"y">>, <<>> }

Yes == <<"y", "e", "s">>

Entries == {"complete_assignement", "assign_schedule_without_preferences",
            "minimum_workers_check"}

VARIABLES
  entry,                    \* the function the caller invoked
  shifts, employees,        \* its arguments
  pc,                       \* position in the code
  assigner,                 \* the assigner whose local table `assignments` is
  assignments,              \* shift -> day name -> list of worker names
  assigned_shifts_per_day,  \* name -> day name -> shift or None
  employee_list,            \* the pool: what is left of the permutation the
                            \* pops are in (the employees not yet popped from it)
  samples_left,             \* permutations of the pool not yet touched
  si, di,                   \* the for loops: shift index, index in its days
  employee,                 \* the candidate popped last / the name taken last
  stdin,                    \* the line the operator typed at the prompt
  consider_preferences,     \* that line, stripped and lower-cased
  available_employees,      \* the shuffled name list of the fallback
  cycle_pos,                \* position of employee_cycle in that list
  check_args, check_result  \* minimum_workers_check: arguments and outcome

vars == <<entry, shifts, employees, pc, assigner, assignments,
          assigned_shifts_per_day, employee_list, samples_left, si, di,
          employee, stdin, consider_preferences, available_employees,
          cycle_pos, check_args, check_result>>

\* ----------------------------------------------------------------- helpers
Last(s) == s[Len(s)]
Front(s) == SubSeq(s, 1, Len(s) - 1)

\* str.strip() and str.lower() on the characters the answers use
IsSpace(c) == c = " "

RECURSIVE LStrip(_)
LStrip(s) == IF s # <<>> /\ IsSpace(Head(s)) THEN LStrip(Tail(s)) ELSE s

RECURSIVE RStrip(_)
RStrip(s) == IF s # <<>> /\ IsSpace(Last(s)) THEN RStrip(Front(s)) ELSE s

Strip(s) == RStrip(LStrip(s))

LowerChar(c) ==
  CASE c = "Y" -> "y" [] c = "E" -> "e" [] c = "S" -> "s"
    [] c = "N" -> "n" [] c = "O" -> "o" [] OTHER -> c

Lower(s) == [i \in DOMAIN s |-> LowerChar(s[i])]

\* random.shuffle(xs): any permutation of xs
Shuffle(xs) ==
  {[i \in DOMAIN xs |-> xs[p[i]]] :
     p \in {q \in [DOMAIN xs -> DOMAIN xs] : Injective(q)}}

\* {shift["shift"]: {day: [] for day in all_days.values()} for shift in shifts}
EmptyTable(ss) ==
  [id \in {ss[i].shift : i \in DOMAIN ss} |-> [dn \in DayNames |-> <<>>]]

\* the position of the two nested for loops at or after (s, d): the next
\* (shift, day) to run the body for, or s > Len(ss) when the loops are over
RECURSIVE Advance(_, _, _)
Advance(ss, s, d) ==
  IF s > Len(ss) THEN <<s, 1>>
  ELSE IF d <= Len(ss[s].days) THEN <<s, d>>
  ELSE Advance(ss, s + 1, 1)

LoopsOver == si > Len(shifts)
day_num == shifts[si].days[di]
day_name == all_days[day_num]

\* `not employee_list`: the flattened pool has no element left
PoolEmpty(el, left, emps) == el = {} /\ (left = 0 \/ Len(emps) = 0)

\* employee_list.pop(): the last element of the pool.  The pool is
\* len(shifts) * len(all_days) independent uniform permutations
\* (random.sample(employees, len(employees))) laid end to end, so the order
\* within a permutation is drawn as it is consumed: a pop takes any employee
\* the current permutation has left, and starts the next permutation when
\* it has none left.
Pops(el, left, emps) ==
  LET cur == IF el # {} THEN el ELSE Range(emps)
      lft == IF el # {} THEN left ELSE left - 1
  IN {[employee |-> e, employee_list |-> cur \ {e}, samples_left |-> lft] :
        e \in cur}

\* a while condition that forgets the commitment of the day
RejectedUnavailableOnly(asp, e, d) == d \in e.unavailable_days

\* a while condition that takes a commitment of any weekday for one of the day
RejectedCommittedAnyDay(asp, e, d) ==
  \/ \E dn \in DayNames : asp[e.name][dn] # None
  \/ d \in e.unavailable_days

\* a while condition that forgets the unavailable days
RejectedCommittedOnly(asp, e, d) == asp[e.name][all_days[d]] # None

\* the while condition of assign_schedule (lines 368-371)
Rejected(asp, e, d) ==
  \/ asp[e.name][all_days[d]] # None
  \/ d \in e.unavailable_days

\* a pool of one permutation per shift
PoolSamplesPerShift(ss) == Len(ss)

\* range(len(shifts) * len(all_days)) (line 351)
PoolSamples(ss) == Len(ss) * NumAllDays

\* ------------------------------------------------------------------- Init
NoEmployee == [name |-> None, unavailable_days |-> {}]

Init ==
  /\ entry \in Entries
  /\ IF entry = "minimum_workers_check"
     THEN /\ shifts = <<>>
          /\ employees = <<>>
          /\ check_args \in (-MaxInt..MaxInt) \X (-MaxInt..MaxInt)
     ELSE /\ \E in \in Inputs :
               /\ shifts = in.shifts
               /\ employees = in.employees
          /\ check_args = <<0, 0>>
  /\ pc = "start"
  /\ assigner = None
  /\ assignments = <<>>
  /\ assigned_shifts_per_day = <<>>
  /\ employee_list = {}
  /\ samples_left = 0
  /\ si = 1
  /\ di = 1
  /\ employee = NoEmployee
  /\ stdin = <<>>
  /\ consider_preferences = <<>>
  /\ available_employees = <<>>
  /\ cycle_pos = 1
  /\ check_result = None

\* ------------------------------------------------- minimum_workers_check
\* the comparison off by one
minimum_workers_check_le(n, min_workers) ==
  IF n <= min_workers THEN "SystemExit" ELSE "True"

\* lines 282-285: True, or exit(1); int(min_workers) of an integer is itself
minimum_workers_check(n, min_workers) ==
  IF n < min_workers THEN "SystemExit" ELSE "True"

MinimumWorkersCheck ==
  /\ pc = "start"
  /\ entry = "minimum_workers_check"
  /\ check_result' = minimum_workers_check(check_args[1], check_args[2])
  /\ pc' = IF check_result' = "SystemExit" THEN "system_exit" ELSE "return"
  /\ UNCHANGED <<entry, shifts, employees, assigner, assignments,
                 assigned_shifts_per_day, employee_list, samples_left, si, di,
                 employee, stdin, consider_preferences, available_employees,
                 cycle_pos, check_args>>

\* ------------------------------------------------------- assign_schedule
\* complete_assignement line 307 calls assign_schedule; lines 344-353
AssignScheduleCall ==
  /\ pc = "start"
  /\ entry = "complete_assignement"
  /\ assigner' = "assign_schedule"
  /\ assignments' = EmptyTable(shifts)
  /\ assigned_shifts_per_day' =
       [n \in {employees[i].name : i \in DOMAIN employees} |->
          [dn \in DayNames |-> None]]
  /\ employee_list' = {}
  /\ samples_left' = PoolSamples(shifts)
  /\ si' = Advance(shifts, 1, 1)[1]
  /\ di' = Advance(shifts, 1, 1)[2]
  /\ pc' = "for"
  /\ UNCHANGED <<entry, shifts, employees, employee, stdin,
                 consider_preferences, available_employees, cycle_pos,
                 check_args, check_result>>

\* lines 360-362: the pool is empty at the first pop of a slot
FatalExit ==
  /\ pc = "for"
  /\ assigner = "assign_schedule"
  /\ ~LoopsOver
  /\ PoolEmpty(employee_list, samples_left, employees)
  /\ pc' = "fatal_exit"
  /\ UNCHANGED <<entry, shifts, employees, assigner, assignments,
                 assigned_shifts_per_day, employee_list, samples_left, si, di,
                 employee, stdin, consider_preferences, available_employees,
                 cycle_pos, check_args, check_result>>

\* line 365
FirstPop ==
  /\ pc = "for"
  /\ assigner = "assign_schedule"
  /\ ~LoopsOver
  /\ ~PoolEmpty(employee_list, samples_left, employees)
  /\ \E r \in Pops(employee_list, samples_left, employees) :
       /\ employee' = r.employee
       /\ employee_list' = r.employee_list
       /\ samples_left' = r.samples_left
  /\ pc' = "while"
  /\ UNCHANGED <<entry, shifts, employees, assigner, assignments,
                 assigned_shifts_per_day, si, di, stdin, consider_preferences,
                 available_employees, cycle_pos, check_args, check_result>>

\* the empty pool of the while loop handled like that of the first pop
RaiseAsFatalExit ==
  /\ pc = "while"
  /\ Rejected(assigned_shifts_per_day, employee, day_num)
  /\ PoolEmpty(employee_list, samples_left, employees)
  /\ pc' = "fatal_exit"
  /\ UNCHANGED <<entry, shifts, employees, assigner, assignments,
                 assigned_shifts_per_day, employee_list, samples_left, si, di,
                 employee, stdin, consider_preferences, available_employees,
                 cycle_pos, check_args, check_result>>

\* lines 368-376: the candidate is rejected and the pool is empty
RaiseNotEnoughWorkers ==
  /\ pc = "while"
  /\ Rejected(assigned_shifts_per_day, employee, day_num)
  /\ PoolEmpty(employee_list, samples_left, employees)
  /\ pc' = "raised"
  \* the frame of assign_schedule is gone, `assignments` of
  \* complete_assignement was never bound
  /\ assigner' = None
  /\ assignments' = <<>>
  /\ assigned_shifts_per_day' = <<>>
  /\ employee' = NoEmployee
  /\ si' = 1
  /\ di' = 1
  /\ UNCHANGED <<entry, shifts, employees, employee_list, samples_left,
                 stdin, consider_preferences, available_employees,
                 cycle_pos, check_args, check_result>>

\* lines 368-379: the candidate is rejected, the next one is popped
NextPop ==
  /\ pc = "while"
  /\ Rejected(assigned_shifts_per_day, employee, day_num)
  /\ ~PoolEmpty(employee_list, samples_left, employees)
  /\ \E r \in Pops(employee_list, samples_left, employees) :
       /\ employee' = r.employee
       /\ employee_list' = r.employee_list
       /\ samples_left' = r.samples_left
  /\ UNCHANGED <<entry, shifts, employees, pc, assigner, assignments,
                 assigned_shifts_per_day, si, di, stdin, consider_preferences,
                 available_employees, cycle_pos, check_args, check_result>>

\* an append that indexes the table by the first weekday
AppendWorkerMonday(tbl, id, dn, name) ==
  [tbl EXCEPT ![id][all_days[1]] = Append(@, name)]

\* an append that reaches the list of every weekday of the shift
AppendWorkerAllDays(tbl, id, dn, name) ==
  [tbl EXCEPT ![id] = [x \in DOMAIN @ |-> Append(@[x], name)]]

\* line 382
AppendWorker(tbl, id, dn, name) ==
  [tbl EXCEPT ![id][dn] = Append(@, name)]

\* line 383
Commit(asp, name, dn, id) ==
  [asp EXCEPT ![name][dn] = id]

\* lines 381-383, then the for loops move on
Assign ==
  /\ pc = "while"
  /\ ~Rejected(assigned_shifts_per_day, employee, day_num)
  /\ assignments' = AppendWorker(assignments, shifts[si].shift, day_name, employee.name)
  /\ assigned_shifts_per_day' =
       Commit(assigned_shifts_per_day, employee.name, day_name, shifts[si].shift)
  /\ si' = Advance(shifts, si, di + 1)[1]
  /\ di' = Advance(shifts, si, di + 1)[2]
  /\ pc' = "for"
  /\ UNCHANGED <<entry, shifts, employees, assigner, employee_list,
                 samples_left, employee, stdin, consider_preferences,
                 available_employees, cycle_pos, check_args, check_result>>

\* line 385, and line 330 of complete_assignement
AssignScheduleReturn ==
  /\ pc = "for"
  /\ assigner = "assign_schedule"
  /\ LoopsOver
  /\ pc' = "return"
  /\ UNCHANGED <<entry, shifts, employees, assigner, assignments,
                 assigned_shifts_per_day, employee_list, samples_left, si, di,
                 employee, stdin, consider_preferences, available_employees,
                 cycle_pos, check_args, check_result>>

\* assign_schedule once more, as the relation between a moment of a run and
\* the next (the actions above, on a record of its locals without the
\* table), and the set of moments its runs on an input go through, over
\* every shuffle
RunStart(ss, es) ==
  [pc |-> "for",
   asp |-> [n \in {es[i].name : i \in DOMAIN es} |-> [dn \in DayNames |-> None]],
   employee_list |-> {}, samples_left |-> PoolSamples(ss),
   si |-> Advance(ss, 1, 1)[1], di |-> Advance(ss, 1, 1)[2],
   employee |-> NoEmployee]

RunPops(st, es) ==
  {[st EXCEPT !.pc = "while", !.employee = r.employee,
              !.employee_list = r.employee_list, !.samples_left = r.samples_left] :
     r \in Pops(st.employee_list, st.samples_left, es)}

RunNext(st, ss, es) ==
  IF st.pc = "for"
  THEN IF st.si > Len(ss) THEN {[st EXCEPT !.pc = "return"]}
       ELSE IF PoolEmpty(st.employee_list, st.samples_left, es)
            THEN {[st EXCEPT !.pc = "fatal_exit"]}
            ELSE RunPops(st, es)
  ELSE IF st.pc = "while"
  THEN IF Rejected(st.asp, st.employee, ss[st.si].days[st.di])
       THEN IF PoolEmpty(st.employee_list, st.samples_left, es)
            THEN {[st EXCEPT !.pc = "raised"]}
            ELSE RunPops(st, es)
       ELSE {[st EXCEPT !.pc = "for",
                        !.asp = Commit(st.asp, st.employee.name,
                                       all_days[ss[st.si].days[st.di]], ss[st.si].shift),
                        !.si = Advance(ss, st.si, st.di + 1)[1],
                        !.di = Advance(ss, st.si, st.di + 1)[2]]}
  ELSE {}

RECURSIVE RunReach(_, _, _, _)
RunReach(new, seen, ss, es) ==
  IF new = {} THEN seen
  ELSE LET nxt == UNION {RunNext(st, ss, es) : st \in new} \ seen
       IN RunReach(nxt, seen \cup nxt, ss, es)

\* the ways the runs of assign_schedule on the input can end
Outcomes(ss, es) ==
  {st.pc : st \in RunReach({RunStart(ss, es)}, {RunStart(ss, es)}, ss, es)}
    \cap {"return", "raised", "fatal_exit"}

\* --------------------------------- assign_schedule_without_preferences
\* lines 398-407
FallbackBegin ==
  /\ assigner' = "assign_schedule_without_preferences"
  /\ assignments' = EmptyTable(shifts)
  /\ available_employees' \in Shuffle([i \in DOMAIN employees |-> employees[i].name])
  /\ cycle_pos' = 1
  /\ si' = Advance(shifts, 1, 1)[1]
  /\ di' = Advance(shifts, 1, 1)[2]
  /\ pc' = "cycle"

\* a caller invokes the fallback directly
FallbackCall ==
  /\ pc = "start"
  /\ entry = "assign_schedule_without_preferences"
  /\ FallbackBegin
  /\ UNCHANGED <<entry, shifts, employees, assigned_shifts_per_day,
                 employee_list, samples_left, employee, stdin,
                 consider_preferences, check_args, check_result>>

\* ------------------------------------------------- complete_assignement
\* lines 310-322: the exception is caught, the operator answers yes
PromptYes ==
  /\ pc = "raised"
  /\ \E a \in Answers :
       /\ stdin' = a
       /\ consider_preferences' = Lower(Strip(a))
  /\ consider_preferences' = Yes
  /\ FallbackBegin
  /\ UNCHANGED <<entry, shifts, employees, assigned_shifts_per_day,
                 employee_list, samples_left, employee, check_args,
                 check_result>>

\* any other answer, downgraded silently to the fallback
PromptOtherSilent ==
  /\ pc = "raised"
  /\ \E a \in Answers :
       /\ stdin' = a
       /\ consider_preferences' = Lower(Strip(a))
  /\ consider_preferences' # Yes
  /\ FallbackBegin
  /\ UNCHANGED <<entry, shifts, employees, assigned_shifts_per_day,
                 employee_list, samples_left, employee, check_args,
                 check_result>>

\* lines 310-329: any other answer
PromptOther ==
  /\ pc = "raised"
  /\ \E a \in Answers :
       /\ stdin' = a
       /\ consider_preferences' = Lower(Strip(a))
  /\ consider_preferences' # Yes
  /\ pc' = "declined_exit"
  /\ UNCHANGED <<entry, shifts, employees, assigner, assignments,
                 assigned_shifts_per_day, employee_list, samples_left, si, di,
                 employee, available_employees, cycle_pos, check_args,
                 check_result>>

\* a cycle that stays on the last name
CycleNextNoWrap(pos, names) == IF pos < Len(names) THEN pos + 1 ELSE pos

\* next(employee_cycle) on itertools.cycle(available_employees)
CycleNext(pos, names) == (pos % Len(names)) + 1

\* lines 411-417, then the for loops move on
FallbackAssign ==
  /\ pc = "cycle"
  /\ ~LoopsOver
  /\ available_employees # <<>>
  /\ employee' = [name |-> available_employees[cycle_pos], unavailable_days |-> {}]
  /\ cycle_pos' = CycleNext(cycle_pos, available_employees)
  /\ assignments' = AppendWorker(assignments, shifts[si].shift, day_name,
                                 available_employees[cycle_pos])
  /\ si' = Advance(shifts, si, di + 1)[1]
  /\ di' = Advance(shifts, si, di + 1)[2]
  /\ UNCHANGED <<entry, shifts, employees, pc, assigner,
                 assigned_shifts_per_day, employee_list, samples_left, stdin,
                 consider_preferences, available_employees, check_args,
                 check_result>>

\* line 414 with no employee: next() of an empty cycle raises StopIteration
FallbackStopIteration ==
  /\ pc = "cycle"
  /\ ~LoopsOver
  /\ available_employees = <<>>
  /\ pc' = "stop_iteration"
  /\ UNCHANGED <<entry, shifts, employees, assigner, assignments,
                 assigned_shifts_per_day, employee_list, samples_left, si, di,
                 employee, stdin, consider_preferences, available_employees,
                 cycle_pos, check_args, check_result>>

\* line 419
FallbackReturn ==
  /\ pc = "cycle"
  /\ LoopsOver
  /\ pc' = "return"
  /\ UNCHANGED <<entry, shifts, employees, assigner, assignments,
                 assigned_shifts_per_day, employee_list, samples_left, si, di,
                 employee, stdin, consider_preferences, available_employees,
                 cycle_pos, check_args, check_result>>

Next ==
  \/ MinimumWorkersCheck
  \/ AssignScheduleCall
  \/ FatalExit
  \/ FirstPop
  \/ RaiseNotEnoughWorkers
  \/ NextPop
  \/ Assign
  \/ AssignScheduleReturn
  \/ FallbackCall
  \/ PromptYes
  \/ PromptOther
  \/ FallbackAssign
  \/ FallbackStopIteration
  \/ FallbackReturn

Spec == Init /\ [][Next]_vars

\* assign_schedule is synchronous, single-threaded code: once called it
\* runs on until it returns, raises or exits
AssignScheduleStep ==
  \/ AssignScheduleCall
  \/ FatalExit
  \/ FirstPop
  \/ RaiseNotEnoughWorkers
  \/ NextPop
  \/ Assign
  \/ AssignScheduleReturn

FairSpec == Spec /\ WF_vars(AssignScheduleStep)

-----------------------------------------------------------------------------
\* The data model's assumptions on the inputs
UniqueShiftIdsOf(ss) == \A i, j \in DOMAIN ss : ss[i].shift = ss[j].shift => i = j
DistinctDaysOf(ss) == \A i \in DOMAIN ss : Injective(ss[i].days)
UniqueNamesOf(es) == \A i, j \in DOMAIN es : es[i].name = es[j].name => i = j

UniqueShiftIds == UniqueShiftIdsOf(shifts)
DistinctDays == DistinctDaysOf(shifts)
UniqueNames == UniqueNamesOf(employees)

Names == {employees[i].name : i \in DOMAIN employees}
Ids == {shifts[i].shift : i \in DOMAIN shifts}

\* how often the name stands in the lists of the weekday, over all shifts
Occurrences(name, dn) ==
  LET RECURSIVE Sum(_)
      Sum(S) == IF S = {} THEN 0
                ELSE LET id == CHOOSE x \in S : TRUE
                     IN Cardinality({k \in DOMAIN assignments[id][dn] :
                                       assignments[id][dn][k] = name})
                          + Sum(S \ {id})
  IN Sum(DOMAIN assignments)

\* the table is the one assign_schedule builds or has returned
Constrained == assigner = "assign_schedule"
Fallback == assigner = "assign_schedule_without_preferences"
Returned == pc = "return" /\ entry # "minimum_workers_check"

\* C1 (state part): in the table of assign_schedule, at every moment and
\* so in every table it returns, no worker stands in the lists of a weekday
\* more than once.
C1_NoDoubleBooking ==
  Constrained => \A n \in Names : \A dn \in DayNames : Occurrences(n, dn) <= 1

\* C1 (step part): a commitment that is set is never overwritten.
C1_CommitOnce ==
  (Constrained /\ Constrained') =>
     \A n \in Names : \A dn \in DayNames :
        assigned_shifts_per_day[n][dn] # None =>
          assigned_shifts_per_day'[n][dn] = assigned_shifts_per_day[n][dn]

\* C1: no double-booking: no worker is in the lists of two shifts (nor twice
\* in one list) for one weekday in any table of assign_schedule, and a
\* commitment assigned_shifts_per_day[w][d] goes from None to a shift at most
\* once and is never overwritten, whatever the shuffles.
C1_Theorem == [](C1_NoDoubleBooking) /\ [][C1_CommitOnce]_vars

\* two shifts of one weekday got their two workers in a returned table
C1_Witness ==
  /\ Returned /\ Constrained
  /\ \E i, j \in DOMAIN shifts : \E d \in 1..7 :
       /\ i # j /\ shifts[i].shift # shifts[j].shift
       /\ assignments[shifts[i].shift][all_days[d]] # <<>>
       /\ assignments[shifts[j].shift][all_days[d]] # <<>>

\* C2: unavailability respected: in the table of assign_schedule, at every
\* moment of the run and in every table returned, no worker is in a list of
\* a weekday of their unavailable set (names being unique).
C2_Theorem ==
  (Constrained /\ UniqueNames) =>
     \A i \in DOMAIN employees : \A d \in employees[i].unavailable_days :
        Occurrences(employees[i].name, all_days[d]) = 0

\* a table is returned that fills a weekday on which a worker is unavailable
C2_Witness ==
  /\ Returned /\ Constrained /\ UniqueNames
  /\ \E i \in DOMAIN employees : \E d \in employees[i].unavailable_days :
       \E id \in Ids : assignments[id][all_days[d]] # <<>>

\* C3: full coverage: in every table either assigner returns, every
\* (shift, weekday) on which the shift is active has at least one worker.
C3_Theorem ==
  Returned =>
     \A i \in DOMAIN shifts : \A k \in DOMAIN shifts[i].days :
        Len(assignments[shifts[i].shift][all_days[shifts[i].days[k]]]) >= 1

\* the fallback returns a table with a slot on Tuesday, after
\* assign_schedule raised
C3_Witness ==
  /\ Returned /\ Fallback /\ entry = "complete_assignement"
  /\ \E i \in DOMAIN shifts : 2 \in Range(shifts[i].days)

\* some weekday has more shifts active on it than workers not unavailable
Infeasible ==
  \E d \in 1..7 :
     Cardinality({i \in DOMAIN shifts : d \in Range(shifts[i].days)})
       > Cardinality({j \in DOMAIN employees : d \notin employees[j].unavailable_days})

\* assign_schedule ended otherwise than by raising NotEnoughWorkersError
EndedWithoutRaise == pc = "fatal_exit" \/ (Returned /\ Constrained)

\* C4 as stated: on every input with some weekday of more active shifts than
\* available workers, assign_schedule neither returns a table nor ends in
\* the fatal exit.
C4_Original ==
  (entry = "complete_assignement" /\ Infeasible) => ~EndedWithoutRaise

C4_Pre ==
  /\ entry = "complete_assignement" /\ pc = "start"
  /\ Infeasible /\ Len(employees) >= 1 /\ DistinctDays

\* C4 amended: on every such input that has at least one worker (and lists
\* no weekday twice in a shift), every run of assign_schedule ends by
\* raising NotEnoughWorkersError: it never returns a table, never ends in
\* the fatal exit, and does reach the raise.
C4_Theorem ==
  /\ []((entry = "complete_assignement" /\ Infeasible /\ Len(employees) >= 1
           /\ DistinctDays) => ~EndedWithoutRaise)
  /\ (C4_Pre ~> pc = "raised")

\* one worker, unavailable on Monday, one shift active Monday and Tuesday:
\* raised
C4_Witness ==
  /\ pc = "raised" /\ Infeasible /\ DistinctDays
  /\ Len(employees) = 1 /\ employees[1].unavailable_days = {1}
  /\ Len(shifts) = 1 /\ shifts[1].days = <<1, 2>>

C8_Theorem ==
  (UniqueNames /\ DistinctDays) =>
     /\ (pc = "while" /\ PoolEmpty(employee_list, samples_left, employees)
           /\ Rejected(assigned_shifts_per_day, employee, day_num))
          => \A j \in DOMAIN employees :
                Rejected(assigned_shifts_per_day, employees[j], day_num)
     /\ (pc = "for" /\ ~LoopsOver /\ PoolEmpty(employee_list, samples_left, employees))
          => Len(employees) = 0
     /\ pc = "fatal_exit" => (Len(employees) = 0 /\ ~LoopsOver)

\* the pool of two workers ran out in the search of a slot
C8_Witness ==
  /\ UniqueNames /\ DistinctDays /\ Len(employees) = 2
  /\ pc = "while" /\ PoolEmpty(employee_list, samples_left, employees)
  /\ Rejected(assigned_shifts_per_day, employee, day_num)

\* the active slots in shift-then-day order
RECURSIVE SlotsFrom(_, _)
SlotsFrom(ss, i) ==
  IF i > Len(ss) THEN <<>>
  ELSE [k \in DOMAIN ss[i].days |-> <<ss[i].shift, ss[i].days[k]>>] \o SlotsFrom(ss, i + 1)

Slots == SlotsFrom(shifts, 1)

\* the table that gives the i-th slot the name p[i mod N]
RECURSIVE RoundRobin(_, _, _)
RoundRobin(p, sl, i) ==
  IF i = 0 THEN EmptyTable(shifts)
  ELSE [RoundRobin(p, sl, i - 1)
          EXCEPT ![sl[i][1]][all_days[sl[i][2]]] = Append(@, p[((i - 1) % Len(p)) + 1])]

\* how often the name stands in the table
Total(name) ==
  LET RECURSIVE Sum(_)
      Sum(D) == IF D = {} THEN 0
                ELSE LET dn == CHOOSE x \in D : TRUE
                     IN Occurrences(name, dn) + Sum(D \ {dn})
  IN Sum(DayNames)

\* the worker of the i-th slot (one worker per slot)
SlotWorker(i) == assignments[Slots[i][1]][all_days[Slots[i][2]]][1]

\* C9: with at least one worker the fallback never fails, and the table it
\* returns is the round-robin table of one permutation p of the workers
\* (slot i gets p[i mod N]); so N consecutive slots get N distinct workers
\* and the slot counts of two workers differ by at most 1.
C9_Theorem ==
  /\ Len(employees) >= 1 => pc # "stop_iteration"
  /\ (Returned /\ Fallback) =>
       /\ \E p \in Shuffle([i \in DOMAIN employees |-> employees[i].name]) :
            assignments = RoundRobin(p, Slots, Len(Slots))
       /\ (UniqueNames /\ UniqueShiftIds /\ DistinctDays) =>
            /\ \A a, b \in Names : Total(a) - Total(b) <= 1
            /\ \A i, j \in DOMAIN Slots :
                 (i < j /\ j < i + Len(employees)) => SlotWorker(i) # SlotWorker(j)

\* the fallback returned a table of more slots than workers that puts a
\* worker on a weekday of their unavailable set
C9_Witness ==
  /\ Returned /\ Fallback /\ UniqueNames /\ UniqueShiftIds /\ DistinctDays
  /\ Len(employees) >= 2 /\ Len(Slots) > Len(employees)
  /\ \E i \in DOMAIN employees : \E d \in employees[i].unavailable_days :
       Occurrences(employees[i].name, all_days[d]) > 0

\* C10: with unique shift identifiers and no weekday listed twice in a
\* shift, in every table either assigner returns a list holds exactly one
\* worker where the shift is active and none where it is not.
C10_Theorem ==
  (Returned /\ UniqueShiftIds /\ DistinctDays) =>
     \A i \in DOMAIN shifts : \A d \in 1..7 :
        Len(assignments[shifts[i].shift][all_days[d]])
          = IF d \in Range(shifts[i].days) THEN 1 ELSE 0

\* assign_schedule returned the table of two shifts active on Monday and
\* Tuesday only
C10_Witness ==
  /\ Returned /\ Constrained /\ UniqueShiftIds /\ DistinctDays
  /\ Len(shifts) = 2
  /\ \A i \in DOMAIN shifts : Range(shifts[i].days) = {1, 2}

\* the active slots as <<index of the shift, weekday>>
RECURSIVE SlotList(_, _)
SlotList(ss, i) ==
  IF i > Len(ss) THEN <<>>
  ELSE [k \in DOMAIN ss[i].days |-> <<i, ss[i].days[k]>>] \o SlotList(ss, i + 1)

\* some assignment of one worker to every active slot puts nobody on a
\* weekday of their unavailable set and nobody on two slots of one weekday
AssignmentExists(ss, es) ==
  LET sl == SlotList(ss, 1)
  IN \E f \in [DOMAIN sl -> DOMAIN es] :
        /\ \A i \in DOMAIN sl : sl[i][2] \notin es[f[i]].unavailable_days
        /\ \A i, j \in DOMAIN sl :
             (i # j /\ sl[i][2] = sl[j][2]) => f[i] # f[j]

\* C6 as stated: for some input (unique identifiers and names, no weekday
\* listed twice) and some shuffle order, assign_schedule raises
\* NotEnoughWorkersError although a valid assignment exists.  The inputs
\* are the enumerated ones and the one of the run at hand.
C6_Original ==
  \E in \in Inputs \cup {[shifts |-> shifts, employees |-> employees]} :
     /\ UniqueShiftIdsOf(in.shifts) /\ DistinctDaysOf(in.shifts)
     /\ UniqueNamesOf(in.employees)
     /\ AssignmentExists(in.shifts, in.employees)
     /\ "raised" \in Outcomes(in.shifts, in.employees)

\* assign_schedule has raised NotEnoughWorkersError in this run
HasRaised ==
  \/ pc \in {"raised", "declined_exit"}
  \/ entry = "complete_assignement" /\ Fallback

\* C6 amended: there is no false infeasibility: on inputs of unique
\* identifiers and names with no weekday listed twice, whenever
\* assign_schedule raises NotEnoughWorkersError no valid assignment exists,
\* whatever the shuffle order.
C6_Theorem ==
  (HasRaised /\ UniqueShiftIds /\ DistinctDays /\ UniqueNames) =>
     ~AssignmentExists(shifts, employees)

\* raised with two workers, one shift active Monday and Tuesday, both
\* workers unavailable on one of the two days
C6_Witness ==
  /\ pc = "raised" /\ UniqueShiftIds /\ DistinctDays /\ UniqueNames
  /\ Len(employees) >= 2
  /\ \E i \in DOMAIN shifts : Len(shifts[i].days) >= 2

\* the relation RunNext and the actions tell one story: every moment of a
\* run of the actions is among the moments RunReach computes for the input
RunAgrees ==
  ((entry = "complete_assignement" /\ pc \in {"for", "while", "fatal_exit", "raised"})
     \/ (Returned /\ Constrained)) =>
     \E st \in RunReach({RunStart(shifts, employees)}, {RunStart(shifts, employees)},
                        shifts, employees) :
        /\ st.pc = pc
        /\ pc # "raised" =>
             /\ st.asp = assigned_shifts_per_day
             /\ st.employee_list = employee_list
             /\ st.samples_left = samples_left
             /\ st.si = si /\ st.di = di
             /\ st.employee = employee

=============================================================================
